---- MODULE Spec2Model ----
(***************************************************************************)
(* Model of workflow_config.py: the HourlyFFDIWorkflowConfig document, its *)
(* three schema groups, registry validation (validate_entities) and the    *)
(* JSON load / dump / pretty-print operations.                             *)
(*                                                                         *)
(* Two specifications share the variables:                                 *)
(*   Spec      validation of a parsed configuration against a registry     *)
(*   SpecLoad  dump_example / load_config / pprint over a small file system*)
(***************************************************************************)
EXTENDS Integers, Sequences, FiniteSets, TLC

VARIABLES
    config,     \* the HourlyFFDIWorkflowConfig object held by the caller
    registry,   \* the set of <<operation, id>> pairs the registry resolves
    pc,         \* "idle", "running" (inside validate_entities) or "done"
    target,     \* the object validate_entities was called on
    group,      \* the schema group whose loop is executing
    idx,        \* index of the next identifier in that group's lists
    lookups,    \* registry fetch_* calls issued by the current call, in order
    authCalls,  \* invocations of auth() made by the current call
    out,        \* lines printed by the current call
    returned,   \* <<>> while running, <<b>> once validate_entities returned b
    escaped,    \* exception that propagated out of validate_entities, or "none"
    prev,       \* what the previous top-level validate_entities call returned
    fs,         \* file system: path -> file content
    loaded,     \* outcome of the last load_config call
    dumped,     \* paths dump_example has written
    stdout      \* what pprint wrote for the configuration currently held

vars == <<config, registry, pc, target, group, idx, lookups, authCalls, out,
          returned, escaped, prev, fs, loaded, dumped, stdout>>

valVars  == <<registry, pc, target, group, idx, lookups, authCalls, out,
              returned, escaped, prev>>
loadVars == <<fs, loaded, dumped, stdout>>

----------------------------------------------------------------------------
(* Bounds *)

\* at most this many <<operation, id>> pairs fail to resolve at one time
MaxBroken == 2

\* at most this many slots of a JSON file deviate from the well-formed document
MaxDefects == 1

----------------------------------------------------------------------------
(* The schema *)

InputFields       == <<"hourly_temperature", "relative_humidity", "wind_speed", "daily_mc_adf">>
AssociationFields == <<"person", "organisation">>
ConfigFields      == <<"workflow_template">>

Groups == <<"inputs", "associations", "workflow_configuration">>

GroupFields(g) ==
    CASE g = "inputs"                 -> InputFields
      [] g = "associations"           -> AssociationFields
      [] g = "workflow_configuration" -> ConfigFields

Range(s) == { s[i] : i \in 1..Len(s) }

\* identifiers used for configurations under validation; the empty string is
\* a str like any other
Ids == {"", "a"}

ModelInputs == [ Range(InputFields) -> Ids ]
ModelAssociations == [ Range(AssociationFields) -> Ids ]
ModelConfigurationEntities == [ Range(ConfigFields) -> Ids ]

HourlyFFDIWorkflowConfig ==
    [ inputs : ModelInputs,
      associations : ModelAssociations,
      workflow_configuration : ModelConfigurationEntities ]

NoConfig == [ inputs |-> <<>>, associations |-> <<>>, workflow_configuration |-> <<>> ]

----------------------------------------------------------------------------
(* The registry client and the auth provider (external collaborators) *)

Ops == {"fetch_dataset", "fetch_person", "fetch_organisation",
        "fetch_model_run_workflow_template"}

\* the ways a registry fetch_* call fails
FailKinds == {"not_found", "unauthorized", "transport_error"}

\* everything that can be raised inside the try block
ExceptionKinds == FailKinds \cup {"auth_error"}

AllPairs == Ops \X Ids

\* registry.fetch_*(registry_endpoint, id, auth): "ok" when the entity
\* resolves, otherwise the call raises; kind is the failure the service
\* reports for an entity it does not resolve
FetchSticky(op, id, kind) ==
    IF prev = <<FALSE>> \/ <<op, id>> \notin registry THEN kind ELSE "ok"

Fetch(op, id, kind) ==
    IF <<op, id>> \in registry THEN "ok" ELSE kind

\* auth(): the provider returns credentials or raises
Auth(authOk) == IF authOk THEN "ok" ELSE "auth_error"

\* auth=auth() is evaluated in every loop iteration; n counts invocations,
\* i is the position of the identifier in the group
InvokeAuthHoisted(n, i) == IF i = 1 THEN n + 1 ELSE n

InvokeAuth(n, i) == n + 1

----------------------------------------------------------------------------
(* validate_entities of the three schema groups *)

Entry(op, label, id) == [op |-> op, label |-> label, id |-> id]

\* the ids list of ModelInputs.validate_entities
ModelInputsIdsSwapped(mi) ==
    << mi.hourly_temperature, mi.wind_speed, mi.relative_humidity, mi.daily_mc_adf >>

ModelInputsIds(mi) ==
    << mi.hourly_temperature, mi.relative_humidity, mi.wind_speed, mi.daily_mc_adf >>

ModelInputsPlan(mi) ==
    [ k \in 1..4 |-> Entry("fetch_dataset", "Dataset", ModelInputsIds(mi)[k]) ]

\* the people loop followed by the organisations loop
ModelAssociationsPlan(ma) ==
    << Entry("fetch_person", "Person", ma.person),
       Entry("fetch_organisation", "Organisation", ma.organisation) >>

ModelConfigurationEntitiesPlan(mc) ==
    << Entry("fetch_model_run_workflow_template",
             "Model Run Workflow Template", mc.workflow_template) >>

GroupPlan(cfg, g) ==
    CASE g = "inputs"                 -> ModelInputsPlan(cfg.inputs)
      [] g = "associations"           -> ModelAssociationsPlan(cfg.associations)
      [] g = "workflow_configuration" -> ModelConfigurationEntitiesPlan(cfg.workflow_configuration)

\* the first print of each group's validate_entities
Announce(g) ==
    CASE g = "inputs"                 -> "Validating registered input datasets..."
      [] g = "associations"           -> "Validating registered associations..."
      [] g = "workflow_configuration" -> "Validating registered associations..."

Line(text) == [text |-> text, label |-> "n/a", id |-> "n/a", exc |-> "n/a"]

\* print(f"Encountered exception while validating <label>: {id=}. Exception: {e}.")
Diagnostic(label, id, exc) ==
    [text |-> "Encountered exception while validating", label |-> label,
     id |-> id, exc |-> exc]

\* except Exception as e
ExceptCatchesRegistryOnly(exc) == exc \in FailKinds

ExceptCatches(exc) == exc \in ExceptionKinds

\* one iteration of a group's for loop: what happens after the try
LoopBodyNoReturn(exc) ==
    IF exc = "ok" \/ ExceptCatches(exc) THEN "continue" ELSE "raise"

LoopBody(exc) ==
    IF exc = "ok" THEN "continue"
    ELSE IF ExceptCatches(exc) THEN "return_false"
    ELSE "raise"

----------------------------------------------------------------------------
(* HourlyFFDIWorkflowConfig.validate_entities *)

Targets == {"top", "inputs", "associations", "workflow_configuration"}

NextGroup(g) ==
    CASE g = "inputs"                 -> "associations"
      [] g = "associations"           -> "workflow_configuration"
      [] g = "workflow_configuration" -> "none"

FailedLine(g) ==
    CASE g = "inputs"                 -> "Failed inputs validation."
      [] g = "associations"           -> "Failed associations validation."
      [] g = "workflow_configuration" -> "Failed workflow configuration validation."

\* if not inputs: / if not associations: / if not model_config:
GroupFailedIgnored(r) == FALSE

GroupFailed(r) == ~r

\* the caller invokes validate_entities on the configuration or on one group
BeginValidate(t) ==
    /\ pc = "idle"
    /\ config # NoConfig
    /\ pc' = "running"
    /\ target' = t
    /\ group' = IF t = "top" THEN "inputs" ELSE t
    /\ idx' = 1
    /\ lookups' = <<>>
    /\ authCalls' = 0
    /\ out' = IF t = "top"
              THEN << Line("Validating registered Provena entities in config"),
                      Line(Announce("inputs")) >>
              ELSE << Line(Announce(t)) >>
    /\ returned' = <<>>
    /\ escaped' = "none"
    /\ UNCHANGED <<config, registry, prev>>
    /\ UNCHANGED loadVars

\* the running group's validate_entities returns r to its caller
GroupReturns(r, o) ==
    IF target # "top"
    THEN /\ returned' = <<r>>
         /\ pc' = "done"
         /\ out' = o
         /\ UNCHANGED <<group, idx>>
    ELSE IF GroupFailed(r)
    THEN /\ returned' = <<FALSE>>
         /\ pc' = "done"
         /\ out' = Append(o, Line(FailedLine(group)))
         /\ UNCHANGED <<group, idx>>
    ELSE IF NextGroup(group) = "none"
    THEN /\ returned' = <<TRUE>>
         /\ pc' = "done"
         /\ out' = o
         /\ UNCHANGED <<group, idx>>
    ELSE /\ group' = NextGroup(group)
         /\ idx' = 1
         /\ out' = Append(o, Line(Announce(NextGroup(group))))
         /\ UNCHANGED <<returned, pc>>

\* one iteration of the running group's loop: auth(), then the fetch
LookupStep ==
    /\ pc = "running"
    /\ \E authOk \in BOOLEAN, kind \in FailKinds :
        LET plan == GroupPlan(config, group)
            e    == plan[idx]
            a    == Auth(authOk)
            exc  == IF a # "ok" THEN a ELSE Fetch(e.op, e.id, kind)
            body == LoopBody(exc)
        IN  /\ authCalls' = InvokeAuth(authCalls, idx)
            /\ lookups' = IF a = "ok"
                          THEN Append(lookups, [op |-> e.op, id |-> e.id, ok |-> exc = "ok"])
                          ELSE lookups
            /\ CASE body = "raise" ->
                      /\ escaped' = exc
                      /\ pc' = "done"
                      /\ UNCHANGED <<group, idx, out, returned>>
                 [] body = "return_false" ->
                      /\ GroupReturns(FALSE, Append(out, Diagnostic(e.label, e.id, exc)))
                      /\ UNCHANGED escaped
                 [] body = "continue" /\ idx < Len(plan) ->
                      /\ idx' = idx + 1
                      /\ UNCHANGED <<group, out, returned, escaped, pc>>
                 [] body = "continue" /\ idx = Len(plan) ->
                      /\ GroupReturns(TRUE, out)
                      /\ UNCHANGED escaped
    /\ UNCHANGED <<config, registry, target, prev>>
    /\ UNCHANGED loadVars

\* the caller takes the result; nothing of the call is kept by the object
Return ==
    /\ pc = "done"
    /\ pc' = "idle"
    /\ prev' = IF target = "top" /\ escaped = "none" THEN returned ELSE prev
    /\ target' = "none"
    /\ group' = "none"
    /\ idx' = 0
    /\ lookups' = <<>>
    /\ authCalls' = 0
    /\ out' = <<>>
    /\ returned' = <<>>
    /\ escaped' = "none"
    /\ UNCHANGED <<config, registry>>
    /\ UNCHANGED loadVars

\* between calls an entity is registered or removed, or access to it changes
RegistryChange(op, id) ==
    /\ pc = "idle"
    /\ registry' = IF <<op, id>> \in registry
                   THEN registry \ {<<op, id>>}
                   ELSE registry \cup {<<op, id>>}
    /\ Cardinality(AllPairs \ registry') <= MaxBroken
    /\ UNCHANGED <<config, pc, target, group, idx, lookups, authCalls, out,
                   returned, escaped, prev>>
    /\ UNCHANGED loadVars

----------------------------------------------------------------------------
(* JSON documents and the file system *)

Paths == {"configs/template.json", "run/config.json"}

JStr(s) == [t |-> "str", s |-> s]
JNum    == [t |-> "num", s |-> "7"]
JNull   == [t |-> "null", s |-> "n/a"]
Missing == [t |-> "missing", s |-> "n/a"]

NoFields(g) == [ f \in Range(GroupFields(g)) |-> Missing ]

\* a JSON object holding the given members
JObject(m) == [t |-> "object", m |-> m]

\* the file of the end-to-end scenario
BaseValue(g, f) ==
    CASE f = "hourly_temperature" -> JStr("ds1")
      [] f = "relative_humidity"  -> JStr("ds2")
      [] f = "wind_speed"         -> JStr("ds3")
      [] f = "daily_mc_adf"       -> JStr("ds4")
      [] f = "person"             -> JStr("p1")
      [] f = "organisation"       -> JStr("o1")
      [] f = "workflow_template"  -> JStr("wt1")

GroupSet == Range(Groups)

FieldSlots == UNION { { <<g, f>> : f \in Range(GroupFields(g)) } : g \in GroupSet }
GroupSlots == { <<g, "*">> : g \in GroupSet }
ExtraSlot  == <<"comment", "*">>
Slots      == FieldSlots \cup GroupSlots \cup {ExtraSlot}

\* what a slot of a hand-written file may hold instead of the scenario's value
Alternatives(slot) ==
    IF slot \in FieldSlots THEN {JStr(""), JNum, JNull, Missing}
    ELSE IF slot \in GroupSlots THEN {JNull, Missing}
    ELSE {JStr("note")}

JValues == UNION { Alternatives(slot) : slot \in Slots }

MakeGroup(g, S, c) ==
    IF <<g, "*">> \in S
    THEN [t |-> c[<<g, "*">>].t, m |-> NoFields(g)]
    ELSE JObject([ f \in Range(GroupFields(g)) |->
                     IF <<g, f>> \in S THEN c[<<g, f>>] ELSE BaseValue(g, f) ])

MakeDoc(S, c) ==
    [ inputs                 |-> MakeGroup("inputs", S, c),
      associations           |-> MakeGroup("associations", S, c),
      workflow_configuration |-> MakeGroup("workflow_configuration", S, c),
      comment                |-> IF ExtraSlot \in S THEN c[ExtraSlot] ELSE Missing ]

Docs ==
    UNION { { MakeDoc(S, c) :
                c \in { d \in [S -> JValues] : \A x \in S : d[x] \in Alternatives(x) } } :
            S \in { T \in SUBSET Slots : Cardinality(T) <= MaxDefects } }

EmptyDoc ==
    [ inputs                 |-> [t |-> "missing", m |-> NoFields("inputs")],
      associations           |-> [t |-> "missing", m |-> NoFields("associations")],
      workflow_configuration |-> [t |-> "missing", m |-> NoFields("workflow_configuration")],
      comment                |-> Missing ]

JsonFile(d) == [t |-> "json", doc |-> d]
TextFile    == [t |-> "text", doc |-> EmptyDoc]
NoFile      == [t |-> "absent", doc |-> EmptyDoc]

Contents == { JsonFile(d) : d \in Docs } \cup {TextFile, NoFile}

----------------------------------------------------------------------------
(* Parsing: HourlyFFDIWorkflowConfig.parse_file *)

Ok(v)  == [ok |-> TRUE, v |-> v]
Err    == [ok |-> FALSE, v |-> "n/a"]

\* the validator of a field annotated str; lax is the library's coercion of
\* JSON numbers to str (pydantic 1.x coerces, 2.x rejects)
StrValidatorNonEmpty(v, lax) ==
    CASE v.t = "str" -> IF v.s = "" THEN Err ELSE Ok(v.s)
      [] v.t = "num" -> IF lax THEN Ok(v.s) ELSE Err
      [] OTHER       -> Err

StrValidator(v, lax) ==
    CASE v.t = "str" -> Ok(v.s)
      [] v.t = "num" -> IF lax THEN Ok(v.s) ELSE Err
      [] OTHER       -> Err

\* every field of the schema groups is required
FieldValidateOptional(v, lax) ==
    IF v.t = "missing" THEN Ok("") ELSE StrValidator(v, lax)

FieldValidate(v, lax) ==
    IF v.t = "missing" THEN Err ELSE StrValidator(v, lax)

GroupValid(g, gv, lax) ==
    /\ gv.t = "object"
    /\ \A f \in Range(GroupFields(g)) : FieldValidate(gv.m[f], lax).ok

ParseGroup(g, gv, lax) ==
    [ f \in Range(GroupFields(g)) |-> FieldValidate(gv.m[f], lax).v ]

\* parse_obj: the three groups are required objects; unknown keys are ignored
ParseObj(d, lax) ==
    IF \A g \in GroupSet : GroupValid(g, d[g], lax)
    THEN [ok |-> TRUE, cause |-> "n/a",
          cfg |-> [ inputs |-> ParseGroup("inputs", d.inputs, lax),
                    associations |-> ParseGroup("associations", d.associations, lax),
                    workflow_configuration |->
                        ParseGroup("workflow_configuration", d.workflow_configuration, lax) ]]
    ELSE [ok |-> FALSE, cause |-> "ValidationError", cfg |-> NoConfig]

\* parse_file: read the file, json.loads, parse_obj
ParseFile(files, p, lax) ==
    CASE files[p].t = "absent" -> [ok |-> FALSE, cause |-> "FileNotFoundError", cfg |-> NoConfig]
      [] files[p].t = "text"   -> [ok |-> FALSE, cause |-> "JSONDecodeError", cfg |-> NoConfig]
      [] files[p].t = "json"   -> ParseObj(files[p].doc, lax)

----------------------------------------------------------------------------
(* Serialisation: json.dumps(json.loads(self.json()), indent=2) *)

SerializeGroup(g, rec) ==
    JObject([ f \in Range(GroupFields(g)) |-> JStr(rec[f]) ])

SerializeSwapped(cfg) ==
    [ inputs |-> JObject([ f \in Range(InputFields) |->
                    JStr(cfg.inputs[ CASE f = "wind_speed"   -> "daily_mc_adf"
                                       [] f = "daily_mc_adf" -> "wind_speed"
                                       [] OTHER              -> f ]) ]),
      associations           |-> SerializeGroup("associations", cfg.associations),
      workflow_configuration |-> SerializeGroup("workflow_configuration", cfg.workflow_configuration),
      comment                |-> Missing ]

Serialize(cfg) ==
    [ inputs                 |-> SerializeGroup("inputs", cfg.inputs),
      associations           |-> SerializeGroup("associations", cfg.associations),
      workflow_configuration |-> SerializeGroup("workflow_configuration", cfg.workflow_configuration),
      comment                |-> Missing ]

\* empty_example of dump_example
ExampleBlank ==
    [ inputs |-> [ hourly_temperature |-> "", relative_humidity |-> "",
                   daily_mc_adf |-> "", wind_speed |-> "" ],
      associations |-> [ person |-> "", organisation |-> "" ],
      workflow_configuration |-> [ workflow_template |-> "" ] ]

Example ==
    [ inputs |-> [ hourly_temperature |-> "TODO", relative_humidity |-> "TODO",
                   daily_mc_adf |-> "TODO", wind_speed |-> "TODO" ],
      associations |-> [ person |-> "TODO", organisation |-> "TODO" ],
      workflow_configuration |-> [ workflow_template |-> "TODO" ] ]

----------------------------------------------------------------------------
(* dump_example, load_config, pprint *)

NoLoad == [kind |-> "none", path |-> "n/a", content |-> NoFile,
           afterDump |-> FALSE, msgPath |-> "n/a", cause |-> "n/a"]

\* dump_example(path): writes the serialised example to path
DumpExample(p) ==
    /\ pc = "idle"
    /\ fs' = [fs EXCEPT ![p] = JsonFile(Serialize(Example))]
    /\ dumped' = dumped \cup {p}
    /\ UNCHANGED <<config, loaded, stdout>>
    /\ UNCHANGED valVars

\* the path named in the message of the exception load_config raises
MessagePathFixed(p) == "configs/template.json"

MessagePath(p) == p

\* load_config(path): returns the parsed configuration, or raises an Exception
\* whose message holds the path and the underlying exception
LoadConfig(p) ==
    /\ pc = "idle"
    /\ \E lax \in BOOLEAN :
        LET r == ParseFile(fs, p, lax)
        IN  /\ loaded' = [kind      |-> IF r.ok THEN "ok" ELSE "raised",
                          path      |-> p,
                          content   |-> fs[p],
                          afterDump |-> p \in dumped,
                          msgPath   |-> IF r.ok THEN "n/a" ELSE MessagePath(p),
                          cause     |-> r.cause]
            /\ config' = IF r.ok THEN r.cfg ELSE config
    /\ stdout' = <<>>
    /\ UNCHANGED <<fs, dumped>>
    /\ UNCHANGED valVars

\* pprint(): prints the configuration currently held
PPrint ==
    /\ pc = "idle"
    /\ config # NoConfig
    /\ stdout' = << Serialize(config) >>
    /\ UNCHANGED <<config, fs, loaded, dumped>>
    /\ UNCHANGED valVars

----------------------------------------------------------------------------
(* Specifications *)

ValIdle ==
    /\ registry = AllPairs
    /\ pc = "idle"
    /\ target = "none"
    /\ group = "none"
    /\ idx = 0
    /\ lookups = <<>>
    /\ authCalls = 0
    /\ out = <<>>
    /\ returned = <<>>
    /\ escaped = "none"
    /\ prev = <<>>

\* validation starts from a parsed configuration and a registry that
\* resolves everything
Init ==
    /\ config \in HourlyFFDIWorkflowConfig
    /\ ValIdle
    /\ fs = [p \in Paths |-> NoFile]
    /\ loaded = NoLoad
    /\ dumped = {}
    /\ stdout = <<>>

Next ==
    \/ \E t \in Targets : BeginValidate(t)
    \/ LookupStep
    \/ Return
    \/ \E op \in Ops, id \in Ids : RegistryChange(op, id)

Spec == Init /\ [][Next]_vars

\* loading starts with at most one file on disk and no configuration held
InitLoad ==
    /\ config = NoConfig
    /\ ValIdle
    /\ \E p \in Paths, c \in Contents :
          fs = [q \in Paths |-> IF q = p THEN c ELSE NoFile]
    /\ loaded = NoLoad
    /\ dumped = {}
    /\ stdout = <<>>

NextLoad ==
    \/ \E p \in Paths : DumpExample(p)
    \/ \E p \in Paths : LoadConfig(p)
    \/ PPrint

SpecLoad == InitLoad /\ [][NextLoad]_vars

----------------------------------------------------------------------------
(* Properties of validate_entities (checked under Spec) *)

\* the seven identifier fields in the order the specification fixes
FixedOrder ==
    << [g |-> "inputs", f |-> "hourly_temperature", op |-> "fetch_dataset", label |-> "Dataset"],
       [g |-> "inputs", f |-> "relative_humidity",  op |-> "fetch_dataset", label |-> "Dataset"],
       [g |-> "inputs", f |-> "wind_speed",         op |-> "fetch_dataset", label |-> "Dataset"],
       [g |-> "inputs", f |-> "daily_mc_adf",       op |-> "fetch_dataset", label |-> "Dataset"],
       [g |-> "associations", f |-> "person",       op |-> "fetch_person", label |-> "Person"],
       [g |-> "associations", f |-> "organisation", op |-> "fetch_organisation",
        label |-> "Organisation"],
       [g |-> "workflow_configuration", f |-> "workflow_template",
        op |-> "fetch_model_run_workflow_template", label |-> "Model Run Workflow Template"] >>

\* positions of FixedOrder a call on target t goes through
First(t) == CASE t = "associations" -> 5 [] t = "workflow_configuration" -> 7 [] OTHER -> 1
Last(t)  == CASE t = "inputs" -> 4 [] t = "associations" -> 6 [] OTHER -> 7

IdAt(k) == config[FixedOrder[k].g][FixedOrder[k].f]

Resolves(k) == <<FixedOrder[k].op, IdAt(k)>> \in registry

\* the lookup the specification expects for position k
Expected(k, ok) == [op |-> FixedOrder[k].op, id |-> IdAt(k), ok |-> ok]

\* position k is the first of the call's positions that does not resolve
FirstFailure(t, k) ==
    /\ k \in First(t)..Last(t)
    /\ ~Resolves(k)
    /\ \A j \in First(t)..(k - 1) : Resolves(j)

AllResolve(t) == \A k \in First(t)..Last(t) : Resolves(k)

\* the auth provider raised during the current call
AuthFailed ==
    \/ escaped = "auth_error"
    \/ \E i \in 1..Len(out) : out[i].exc = "auth_error"

Diagnostics == { i \in 1..Len(out) : out[i].label # "n/a" }

TopDone == pc = "done" /\ target = "top"

\* C1: when every identifier resolves (and the auth provider delivers), the
\* top-level validate_entities returns true after exactly 7 lookups, one per
\* identifier field, in the fixed order and with the type's fetch operation
C1_AllResolveSevenLookups ==
    (TopDone /\ AllResolve("top") /\ ~AuthFailed) =>
        /\ returned = <<TRUE>>
        /\ escaped = "none"
        /\ Len(lookups) = 7
        /\ \A k \in 1..7 : lookups[k] = Expected(k, TRUE)

\* a successful top-level call on a document that repeats an identifier in
\* some fields and not in others
C1_Witness ==
    /\ TopDone
    /\ returned = <<TRUE>>
    /\ Len(lookups) = 7
    /\ config.inputs.hourly_temperature = config.inputs.relative_humidity
    /\ config.inputs.relative_humidity # config.inputs.wind_speed
    /\ config.associations.person = config.associations.organisation

\* C2: when the first identifier that does not resolve is at position k of
\* the fixed order, the top-level call returns false and its lookups are
\* exactly the first k identifiers, k-1 successful and the last one failed
C2_ShortCircuitAtFirstFailure ==
    \A k \in 1..7 :
        (TopDone /\ FirstFailure("top", k) /\ ~AuthFailed) =>
            /\ returned = <<FALSE>>
            /\ Len(lookups) = k
            /\ \A j \in 1..k : lookups[j] = Expected(j, j < k)

\* person fails with organisation unresolvable as well: 5 lookups, no
\* organisation and no workflow_template lookup
C2_Witness ==
    /\ TopDone
    /\ FirstFailure("top", 5)
    /\ ~Resolves(6)
    /\ returned = <<FALSE>>
    /\ Len(lookups) = 5
    /\ ~AuthFailed

\* the position at which a group call that returned false stopped
FailPos ==
    IF Len(lookups) > 0 /\ ~lookups[Len(lookups)].ok
    THEN First(target) + Len(lookups) - 1
    ELSE First(target) + Len(lookups)

\* C3: a group called on its own returns true iff every lookup of its
\* identifiers succeeds; at the first failing identifier it prints one
\* diagnostic naming that identifier and returns false with no later lookup
C3_GroupShortCircuit ==
    (pc = "done" /\ target \in GroupSet) =>
        /\ returned = << AllResolve(target) /\ ~AuthFailed >>
        /\ returned = <<TRUE>> =>
              /\ Len(lookups) = Last(target) - First(target) + 1
              /\ \A j \in 1..Len(lookups) : lookups[j] = Expected(First(target) + j - 1, TRUE)
              /\ Diagnostics = {}
        /\ returned = <<FALSE>> =>
              /\ FailPos <= Last(target)
              /\ ~AuthFailed => FirstFailure(target, FailPos)
              /\ Len(lookups) <= FailPos - First(target) + 1
              /\ \A j \in 1..Len(lookups) :
                    lookups[j] = Expected(First(target) + j - 1, First(target) + j - 1 < FailPos)
              /\ Diagnostics = {Len(out)}
              /\ out[Len(out)].id = IdAt(FailPos)
              /\ out[Len(out)].label = FixedOrder[FailPos].label

\* ModelInputs alone: relative_humidity is the first identifier that fails
C3_Witness ==
    /\ pc = "done"
    /\ target = "inputs"
    /\ FirstFailure("inputs", 2)
    /\ returned = <<FALSE>>
    /\ Len(lookups) = 2
    /\ out[Len(out)].id = config.inputs.relative_humidity

\* a lookup step of the current call failed
StepFailed ==
    \/ \E j \in 1..Len(lookups) : ~lookups[j].ok
    \/ authCalls > Len(lookups)

\* C4: validate_entities never raises: whatever makes a lookup step fail
\* (not found, unauthorized, transport error, auth provider failure), the call
\* ends with the boolean false and a printed diagnostic
C4_NeverRaises ==
    pc = "done" =>
        /\ escaped = "none"
        /\ returned \in {<<TRUE>>, <<FALSE>>}
        /\ StepFailed =>
              /\ returned = <<FALSE>>
              /\ \E i \in Diagnostics : out[i].exc \in ExceptionKinds

\* the auth provider fails in the middle of a top-level call
C4_Witness ==
    /\ TopDone
    /\ authCalls > Len(lookups)
    /\ Len(lookups) >= 1
    /\ returned = <<FALSE>>
    /\ out[Len(out) - 1].exc = "auth_error"

\* C5 as stated: the auth provider is invoked once per identifier-type batch
C5_AuthOncePerBatch ==
    (pc = "done" /\ returned = <<TRUE>>) =>
        authCalls = CASE target = "top"                    -> 4
                      [] target = "inputs"                 -> 1
                      [] target = "associations"           -> 2
                      [] target = "workflow_configuration" -> 1

\* C5 amended: the auth provider is invoked once per identifier, before that
\* identifier's lookup: 4 times by a successful ModelInputs call, 7 times by
\* a successful top-level call
C5_AuthOncePerIdentifier ==
    pc = "done" =>
        /\ authCalls = Len(lookups) + (IF AuthFailed THEN 1 ELSE 0)
        /\ returned = <<TRUE>> => authCalls = Last(target) - First(target) + 1

C5_Witness ==
    /\ pc = "done"
    /\ target = "inputs"
    /\ returned = <<TRUE>>
    /\ authCalls = 4

\* the lookups a top-level call issues, as a function of the configuration
\* and the registry alone
LookupsFor(n) == [ j \in 1..n |-> Expected(j, Resolves(j)) ]

\* C10: validation is stateless: no call changes the configuration, and the
\* result and lookups of a top-level call are determined by the registry
\* during that call, whatever earlier calls returned
C10_Stateless ==
    [][ /\ config' = config
        /\ (pc' = "done" /\ target' = "top" /\ ~AuthFailed') =>
              /\ returned' = << AllResolve("top")' >>
              /\ AllResolve("top")' => lookups' = LookupsFor(7)'
              /\ \A k \in 1..7 : FirstFailure("top", k)' => lookups' = LookupsFor(k)' ]_vars

\* a top-level call that succeeds with 7 lookups after the previous one failed
C10_Witness ==
    /\ TopDone
    /\ prev = <<FALSE>>
    /\ returned = <<TRUE>>
    /\ Len(lookups) = 7

----------------------------------------------------------------------------
(* Properties of load_config, dump_example and pprint (checked under SpecLoad) *)

Loaded == loaded.kind # "none"

\* a JSON document lacks one of the 3 group objects or one of the 7 fields
MissingRequired(d) ==
    \E g \in GroupSet :
        \/ d[g].t = "missing"
        \/ d[g].t = "object" /\ \E f \in Range(GroupFields(g)) : d[g].m[f].t = "missing"

\* a JSON document matching the schema: 3 group objects, 7 string fields
MatchesSchema(d) ==
    \A g \in GroupSet :
        /\ d[g].t = "object"
        /\ \A f \in Range(GroupFields(g)) : d[g].m[f].t = "str"

AllFields == { <<FixedOrder[k].g, FixedOrder[k].f>> : k \in 1..7 }

\* C6: load_config raises, with the path it was given and the underlying
\* cause in the message, when the path does not exist, the content is not
\* JSON, or a required field or group is missing
C6_LoadErrors ==
    Loaded =>
        /\ loaded.content.t = "absent" =>
              /\ loaded.kind = "raised"
              /\ loaded.msgPath = loaded.path
              /\ loaded.cause = "FileNotFoundError"
        /\ loaded.content.t = "text" =>
              /\ loaded.kind = "raised"
              /\ loaded.msgPath = loaded.path
              /\ loaded.cause = "JSONDecodeError"
        /\ (loaded.content.t = "json" /\ MissingRequired(loaded.content.doc)) =>
              /\ loaded.kind = "raised"
              /\ loaded.msgPath = loaded.path
              /\ loaded.cause = "ValidationError"

\* a file without wind_speed was loaded from the path that is not the template's
C6_Witness ==
    /\ loaded.kind = "raised"
    /\ loaded.path = "run/config.json"
    /\ loaded.content.t = "json"
    /\ loaded.content.doc.inputs.t = "object"
    /\ loaded.content.doc.inputs.m.wind_speed.t = "missing"
    /\ loaded.msgPath = "run/config.json"

\* C7 as stated: no loaded configuration holds an empty identifier
C7_NoEmptyIdentifier ==
    loaded.kind = "ok" => \A x \in AllFields : config[x[1]][x[2]] # ""

\* C7 amended: every identifier field of a loaded configuration is a string
\* taken from the file, possibly empty: a document with 7 string fields is
\* accepted whether or not a string is empty, and a document with a null or
\* missing field is never accepted
C7_StringsPossiblyEmpty ==
    Loaded =>
        /\ (loaded.content.t = "json" /\ MatchesSchema(loaded.content.doc)) =>
              /\ loaded.kind = "ok"
              /\ \A x \in AllFields :
                    config[x[1]][x[2]] = loaded.content.doc[x[1]].m[x[2]].s
        /\ loaded.kind = "ok" =>
              \A x \in AllFields :
                    loaded.content.doc[x[1]].m[x[2]].t \in {"str", "num"}

\* a loaded configuration whose wind_speed is the empty string
C7_Witness ==
    /\ loaded.kind = "ok"
    /\ loaded.content.doc.inputs.m.wind_speed = JStr("")
    /\ config.inputs.wind_speed = ""

\* C8: load_config of a path dump_example has written succeeds and returns a
\* configuration whose 7 identifier fields all equal "TODO"
C8_DumpThenLoad ==
    (Loaded /\ loaded.afterDump) =>
        /\ loaded.kind = "ok"
        /\ \A x \in AllFields : config[x[1]][x[2]] = "TODO"

C8_Witness ==
    /\ loaded.afterDump
    /\ loaded.kind = "ok"
    /\ loaded.path \in dumped
    /\ config.workflow_configuration.workflow_template = "TODO"

\* C9: for a file matching the schema, what pprint writes for the loaded
\* configuration has, under the same keys, the 7 values of the file
C9_RoundTrip ==
    (loaded.kind = "ok" /\ MatchesSchema(loaded.content.doc) /\ stdout # <<>>) =>
        \A x \in AllFields :
            /\ stdout[1][x[1]].t = "object"
            /\ stdout[1][x[1]].m[x[2]] = loaded.content.doc[x[1]].m[x[2]]

\* a file with distinct identifiers and an unknown key was loaded and printed
C9_Witness ==
    /\ loaded.kind = "ok"
    /\ MatchesSchema(loaded.content.doc)
    /\ loaded.content.doc.comment # Missing
    /\ loaded.content.doc.inputs.m.wind_speed # loaded.content.doc.inputs.m.daily_mc_adf
    /\ stdout # <<>>
    /\ stdout[1] # loaded.content.doc

====
